---- MODULE Spec2Model ----
(***************************************************************************)
(* A model of the terminal session manager (Terminal), of one command      *)
(* execution (TerminalProcess), of the shell profile (ShellManager) and of *)
(* the exit status decoder (TerminalProcess.interpretExitCode).            *)
(*                                                                         *)
(* Text is a sequence: a command is a sequence of one-character strings,   *)
(* captured output is a sequence of chunk marks (every chunk the host      *)
(* produces carries the next mark, "1", "2", ..., so output order is       *)
(* readable from the text).  An optional value (x?: T) is a set: {} when   *)
(* undefined, {v} when it holds v.                                         *)
(***************************************************************************)
EXTENDS Integers, Sequences, FiniteSets, Bags, TLC

\* ------------------------------------------------------------------ bounds

\* Executions created in one run of the output specification.
MaxProcs == 3
\* Output chunks the host produces in one run.
MaxChunks == 3
\* Executions created in one run of the session specification.
MaxSessionProcs == 2
\* Output chunks the host produces in one run of the session specification.
MaxSessionChunks == 1
\* Executions created in one run of the handle specification.
MaxHandleProcs == 1
\* Output chunks the host produces in one run of the handle specification.
MaxHandleChunks == 1
\* Lines of the longest text handed to the compressor.
MaxCompressLines == 5
\* Largest line limit handed to the compressor.
MaxLineLimit == 3
\* Largest raw exit code handed to the decoder.
MaxExitCode == 161
MaxCommandLen == 3
MaxQueueProcs == 3
MaxQueueChunks == 3
MaxSendProcs == 2
MaxSearchHits == 2

MaxCheckpointCalls == 3
MaxSequentialProcs == 3
MaxSequentialChunks == 4
MaxIndexProcs == 2
MaxTimeoutProcs == 3
MaxIndexChunks == 2
MaxIndex == 2

\* ------------------------------------------------------------ small inputs

Undefined == {}

Some(v) == {v}

\* os.platform(); every platform but win32 takes the same branches as linux.
Platforms == {"win32", "linux"}

\* The characters the shell profile treats specially, by name.
NEWLINE == "LF"

BACKSLASH == "BACKSLASH"

QUOTE == "QUOTE"

DOLLAR == "DOLLAR"

BACKTICK == "BACKTICK"

CR == "CR"

\* The characters of the commands handed to normalizeCommand: the special ones,
\* the ones its separators are made of, and an ordinary one.
CommandChars == {"a", " ", "&", ";", NEWLINE, CR, BACKSLASH, QUOTE, DOLLAR, BACKTICK}

\* The commands handed to normalizeCommand.
NormalizeInputs == UNION {[1..n -> CommandChars] : n \in 0..MaxCommandLen}

\* Commands a caller submits: a one-liner and a two-line script.
CommandInputs == { <<"a">>, <<"b", NEWLINE, DOLLAR>> }

\* The command submitted where only its handle is looked at.
HandleCommandInputs == { <<"a">> }

\* The links of a result list: up to MaxSearchHits of them, in any order.
SearchHrefs == {"u1", "u2", "u3"}

SearchHits ==
    UNION {[1..n -> SearchHrefs] : n \in 1..MaxSearchHits}

\* The files a caller renames.
RenameFiles == {"a", "b", "c"}

\* The error codes fsPromises.rename fails with.
RenameErrors == {"EACCES", "EBUSY", "ENOENT"}

\* The task ids of the checkpoint requests.
TaskIds == {"t1", "t2"}

\* The workspace roots of the checkpoint requests: one written with a
\* backslash, one without.
WorkspaceRoots == { <<"w", BACKSLASH, "a">>, <<"v">> }

\* The timeouts (ms) a caller passes to Terminal.setShellIntegrationTimeout.
TimeoutInputs == {1000, 20000}

\* The indices a consumer passes to setLastRetrievedIndex.
IndexInputs == 0..MaxIndex

\* Raw exit codes a caller decodes and hands to shellExecutionComplete.
ExitCodeInputs == {0, 143}

\* Signal names a caller may pass to the decoder.
SignalInputs == {"SIGTERM", "SIGSEGV", "SIGABRT"}

VARIABLES
    platform,            \* os.platform()
    shellIntegration,    \* terminal.shellIntegration !== undefined
    busy,                \* Terminal.busy
    running,             \* Terminal.running
    streamClosed,        \* Terminal.streamClosed
    process,             \* Terminal.process: {} or {pid}
    completedProcesses,  \* Terminal.completedProcesses: sequence of pids
    procs,               \* the TerminalProcess objects created, by pid
    handshake,           \* per pid: the pWaitFor promise of its runCommand
    promise,             \* per pid: the promise runCommand returned
    listeners,           \* per pid: the events whose once-listener of runCommand is still on
    continuedAt,         \* per pid: {} or {produced at its first continue()}
    shellIntegrationTimeout, \* Terminal.shellIntegrationTimeout (static)
    lastOverride,        \* {} or {the timeout the last setShellIntegrationTimeout set}
    handshakeTimeout,    \* per pid: the timeout its runCommand gave pWaitFor
    returnedList,        \* the array the last getProcessesWithOutput returned
    aliased,             \* that array is this.completedProcesses itself
    emitted,             \* per pid: the bag of terminating signals emitted on it
    sentText,            \* the bag of texts given to terminal.sendText
    lastOp,              \* the operation that ran last
    lastEmit,            \* what it emitted: {} or {<<pid, event, payload>>}
    ret,                 \* what it returned (<<>> for void)
    produced,            \* chunks the host has produced so far
    pending,             \* per pid: the chunks added to it since its last drain
    doneOrder,           \* pids in the order shellExecutionComplete hit them
    decodeIn,            \* arguments of the interpretExitCode call
    decodeOut,           \* its result: {} before the call, {details} after
    clipboard,           \* vscode.env.clipboard: the text it holds
    terminalBuffer,      \* the lines the active terminal shows
    selection,           \* the terminal selection: 0, or the line it starts at
    call,                \* the getTerminalContents call in flight or ended last
    otherCall,           \* a second call, suspended at an await while call runs
    original,            \* the clipboard when the earliest call in flight was made
    compressIn,          \* arguments of the compressTerminalOutput call
    compressOut,         \* its result: {} before the call, {text} after
    normalizeIn,         \* argument of the normalizeCommand call, and which pass it is
    normalizeOut,        \* its result: {} before the call, {command} after
    isCheckpointInProgress, \* CheckpointService.isCheckpointInProgress
    pendingCheckpoints,  \* CheckpointService.pendingCheckpoints, in insertion order
    checkpointCalls,     \* the createCheckpoint calls made, each with its position
    executions,          \* every executeCheckpoint started: <<call, taskId, path>>
    queuedRequests,      \* every request put in the pending set: <<taskId, path>>
    rename,              \* the safeRename call in flight or ended last
    searchUrls,          \* searchAndAnalyze: the result URLs, <<>> before the search
    page,                \* the URL the one shared page shows ("" for the result list)
    workers,             \* per result URL: the position of its callback
    results              \* the results pushed: <<url, URL whose content was analysed>>

handleVars == <<listeners, continuedAt>>

\* The array a caller holds, and whether it is the session's own array.
listVars == <<returnedList, aliased>>

\* The static state of the Terminal class.
staticVars == <<shellIntegrationTimeout, lastOverride>>

termVars == <<platform, shellIntegration, busy, running, streamClosed, process,
              completedProcesses, procs, handshake, promise, emitted, sentText,
              lastOp, lastEmit, ret, produced, pending, doneOrder, handleVars,
              staticVars, handshakeTimeout, listVars>>

decodeVars == <<decodeIn, decodeOut>>

clipVars == <<clipboard, terminalBuffer, selection, call, otherCall, original>>

\* The variables of the static functions, which no session operation touches.
compressVars == <<compressIn, compressOut>>

normalizeVars == <<normalizeIn, normalizeOut>>

checkpointVars == <<isCheckpointInProgress, pendingCheckpoints, checkpointCalls,
                    executions, queuedRequests>>

searchVars == <<searchUrls, page, workers, results>>

\* The variables of the services beside the terminal.
serviceVars == <<checkpointVars, rename, searchVars>>

pureVars == <<decodeVars, clipVars, compressVars, normalizeVars, serviceVars>>

vars == <<termVars, decodeVars, clipVars, compressVars, normalizeVars, serviceVars>>

\* ----------------------------------------------------------- ShellManager

RECURSIVE ReplaceAll(_, _, _)
\* String.prototype.replace(/ch/g, rep): one left-to-right pass.
ReplaceAll(s, ch, rep) ==
    IF s = <<>> THEN <<>>
    ELSE (IF Head(s) = ch THEN rep ELSE <<Head(s)>>) \o ReplaceAll(Tail(s), ch, rep)

\* A normalisation that leaves the newlines in on win32.
normalizeCommand_KeepsNewlinesOnWindows(plat, command) ==
    IF plat = "win32"
    THEN ReplaceAll(
           ReplaceAll(
             ReplaceAll(command, BACKSLASH, <<BACKSLASH, BACKSLASH>>),
             QUOTE, <<BACKSLASH, QUOTE>>),
           DOLLAR, <<BACKTICK, DOLLAR>>)
    ELSE ReplaceAll(command, NEWLINE, <<" ", "&", "&", " ">>)

\* A normalisation that escapes the quotes before the backslashes.
normalizeCommand_EscapesQuotesFirst(plat, command) ==
    IF plat = "win32"
    THEN ReplaceAll(
           ReplaceAll(
             ReplaceAll(
               ReplaceAll(command, QUOTE, <<BACKSLASH, QUOTE>>),
               BACKSLASH, <<BACKSLASH, BACKSLASH>>),
             DOLLAR, <<BACKTICK, DOLLAR>>),
           NEWLINE, <<";", " ">>)
    ELSE ReplaceAll(command, NEWLINE, <<" ", "&", "&", " ">>)

normalizeCommand(plat, command) ==
    IF plat = "win32"
    THEN ReplaceAll(
           ReplaceAll(
             ReplaceAll(
               ReplaceAll(command, BACKSLASH, <<BACKSLASH, BACKSLASH>>),
               QUOTE, <<BACKSLASH, QUOTE>>),
             DOLLAR, <<BACKTICK, DOLLAR>>),
           NEWLINE, <<";", " ">>)
    ELSE ReplaceAll(command, NEWLINE, <<" ", "&", "&", " ">>)

getShellIntegrationTimeout(plat) == IF plat = "win32" THEN 8000 ELSE 5000

\* ------------------------------------------------- ExitStatusDecoder

\* A decoder that infers the signal from the code, from 128 on instead of above it.
interpretExitCode_InfersFrom128(code, signal, coreDumpPossible) ==
    IF signal = Undefined /\ coreDumpPossible = Undefined /\ code >= 128
    THEN [signal |-> Some(code - 128), coreDumpPossible |-> coreDumpPossible,
          exitCode |-> code, signalName |-> signal]
    ELSE [coreDumpPossible |-> coreDumpPossible, exitCode |-> code, signalName |-> signal]

\* A decoder that derives the core-dump flag from the signal name it is given.
interpretExitCode_DerivesCoreDump(code, signal, coreDumpPossible) ==
    [coreDumpPossible |-> IF coreDumpPossible = Undefined /\ signal # Undefined
                          THEN Some(signal \in {Some("SIGSEGV"), Some("SIGABRT")})
                          ELSE coreDumpPossible,
     exitCode |-> code, signalName |-> signal]

interpretExitCode(code, signal, coreDumpPossible) ==
    [coreDumpPossible |-> coreDumpPossible, exitCode |-> code, signalName |-> signal]

\* Reading a property of an object: undefined when the object has no such key.
Field(obj, key) == IF key \in DOMAIN obj THEN obj[key] ELSE Undefined

\* -------------------------------------------------------- TerminalProcess

\* new TerminalProcess(terminal) with its command set: the instance properties.
NewTerminalProcess(command) ==
    [command |-> command, unretrievedOutput |-> <<>>,
     fullOutput |-> <<>>, lastRetrievedIndex |-> 0]

hasUnretrievedOutput(p) == Len(p.unretrievedOutput) > 0

\* The value getUnretrievedOutput returns.
unretrievedOutputOf(p) == p.unretrievedOutput

\* A drain that forgets to clear the buffer.
drained_KeepsBuffer(p) == p

\* The execution after getUnretrievedOutput.
drained(p) == [p EXCEPT !.unretrievedOutput = <<>>]

addOutput(p, output) == [p EXCEPT !.unretrievedOutput = @ \o output]

\* --------------------------------------------------------------- Terminal

Pids == 1..Len(procs)

IsDrain(name) ==
    name \in {"Terminal.getUnretrievedOutput", "TerminalProcess.getUnretrievedOutput"}

\* The record of a call.  again says that it repeats the drain made just before,
\* and before is what that drain returned.
Op(name, arg) ==
    LET again == IsDrain(name) /\ lastOp.op = name /\ lastOp.arg = arg
    IN [arg |-> arg, again |-> again, op |-> name,
        before |-> IF again THEN ret ELSE <<>>]

RECURSIVE Concat(_, _)
\* The drained text of the executions ps (a sequence of pids), in that order.
Concat(heap, ps) ==
    IF ps = <<>> THEN <<>>
    ELSE unretrievedOutputOf(heap[Head(ps)]) \o Concat(heap, Tail(ps))

\* A clean-up that filters nothing out.
cleanCompletedProcessQueue_KeepsAll(heap, ps) == ps

RECURSIVE cleanCompletedProcessQueue(_, _)
\* completedProcesses.filter(process => process.hasUnretrievedOutput())
cleanCompletedProcessQueue(heap, ps) ==
    IF ps = <<>> THEN <<>>
    ELSE (IF hasUnretrievedOutput(heap[Head(ps)]) THEN <<Head(ps)>> ELSE <<>>)
         \o cleanCompletedProcessQueue(heap, Tail(ps))

\* A copy that hands out the array it was given.
Spread_SameArray(ps) == [list |-> ps, shares |-> TRUE]

\* [...ps]: a new array with the elements of ps, sharing nothing with it.
Spread(ps) == [list |-> ps, shares |-> FALSE]

\* What a caller does to an array it holds.
ListMutations == {"pop", "shift", "reverse", "clear"}

RECURSIVE Reverse(_)
Reverse(ps) == IF ps = <<>> THEN <<>> ELSE Reverse(Tail(ps)) \o <<Head(ps)>>

\* The array ps after the caller's mutation.
Mutated(ps, mutation) ==
    CASE mutation = "pop" -> SubSeq(ps, 1, Len(ps) - 1)
      [] mutation = "shift" -> Tail(ps)
      [] mutation = "reverse" -> Reverse(ps)
      [] mutation = "clear" -> <<>>

\* A completion that queues the execution with push instead of unshift.
Unshift_Pushes(ps, pid) == ps \o <<pid>>

\* Array.prototype.unshift
Unshift(ps, pid) == <<pid>> \o ps

\* A drain that visits the completed executions only.
DrainOrder_SkipsActive(completed, active) == completed

\* The order in which Terminal.getUnretrievedOutput visits the executions.
DrainOrder(completed, active) ==
    completed \o (IF active = Undefined THEN <<>> ELSE <<CHOOSE p \in active : TRUE>>)

Range(s) == {s[i] : i \in DOMAIN s}

\* The signals that end an execution's active phase.
TerminatingSignals ==
    {"completed", "shell_execution_complete", "no_shell_integration", "error"}

\* process.emit(event, payload) on execution pid.  The emission is kept in
\* lastEmit until the next operation, and a terminating signal is counted for
\* good.
Emit(pid, event, payload) ==
    /\ emitted' = IF event \in TerminatingSignals
                  THEN [emitted EXCEPT ![pid] = @ (+) SetToBag({event})]
                  ELSE emitted
    /\ lastEmit' = Some(<<pid, event, payload>>)

NoEmit == /\ lastEmit' = Undefined
          /\ UNCHANGED emitted

\* How often the terminating signal event was emitted on execution pid.
Count(pid, event) == CopiesIn(event, emitted[pid])

\* The state after new Terminal(id, terminal, cwd).
TInit ==
    /\ platform \in Platforms
    /\ shellIntegration = FALSE
    /\ busy = FALSE
    /\ running = FALSE
    /\ streamClosed = FALSE
    /\ process = Undefined
    /\ completedProcesses = <<>>
    /\ procs = <<>>
    /\ handshake = <<>>
    /\ promise = <<>>
    /\ listeners = <<>>
    /\ continuedAt = <<>>
    /\ emitted = <<>>
    /\ sentText = EmptyBag
    /\ lastOp = [arg |-> 0, again |-> FALSE, op |-> "constructor", before |-> <<>>]
    /\ lastEmit = Undefined
    /\ ret = <<>>
    /\ produced = 0
    /\ pending = <<>>
    /\ doneOrder = <<>>
    /\ shellIntegrationTimeout = getShellIntegrationTimeout(platform)
    /\ lastOverride = {}
    /\ handshakeTimeout = <<>>
    /\ returnedList = <<>>
    /\ aliased = FALSE

\* The arguments of an interpretExitCode call.
DecodeInputs ==
    [code : 0..MaxExitCode,
     signal : {Undefined} \cup {Some(n) : n \in SignalInputs},
     coreDumpPossible : {Undefined, Some(TRUE), Some(FALSE)}]

DInit ==
    /\ decodeIn = [code |-> 0, signal |-> Undefined, coreDumpPossible |-> Undefined]
    /\ decodeOut = Undefined

\* ------------------------------------------------- terminal contents (text)

\* A text is the sequence of its lines (a string with n newlines has n + 1
\* lines, the empty string one empty line); a line is a sequence of characters.
EmptyText == << <<>> >>

\* The whitespace character.
WS == " "

\* The character a prompt line starts with.
PROMPT == "$"

RECURSIVE TrimLeft(_)
TrimLeft(line) ==
    IF line # <<>> /\ Head(line) = WS THEN TrimLeft(Tail(line)) ELSE line

RECURSIVE TrimRight(_)
TrimRight(line) ==
    IF line # <<>> /\ line[Len(line)] = WS
    THEN TrimRight(SubSeq(line, 1, Len(line) - 1))
    ELSE line

\* String.prototype.trim on one line.
TrimLine(line) == TrimRight(TrimLeft(line))

RECURSIVE TrimTextLeft(_)
TrimTextLeft(text) ==
    IF text = <<>> THEN <<>>
    ELSE IF TrimLeft(Head(text)) = <<>> THEN TrimTextLeft(Tail(text))
    ELSE <<TrimLeft(Head(text))>> \o Tail(text)

RECURSIVE TrimTextRight(_)
TrimTextRight(text) ==
    IF text = <<>> THEN <<>>
    ELSE IF TrimRight(text[Len(text)]) = <<>>
         THEN TrimTextRight(SubSeq(text, 1, Len(text) - 1))
         ELSE SubSeq(text, 1, Len(text) - 1) \o <<TrimRight(text[Len(text)])>>

\* Array.prototype.join("\n"): no line at all joins to the empty string.
Join(lines) == IF lines = <<>> THEN EmptyText ELSE lines

\* String.prototype.trim on a text: whitespace and newlines go from both ends.
Trim(text) == Join(TrimTextRight(TrimTextLeft(text)))

\* String.prototype.startsWith
StartsWith(line, prefix) ==
    /\ Len(prefix) <= Len(line)
    /\ SubSeq(line, 1, Len(prefix)) = prefix

\* What getTerminalContents returns for the text read off the clipboard: from
\* the last line that starts with the trimmed final line (the prompt) on, the
\* final line left out.
snapshot(tempCopyBuffer, terminalContents) ==
    IF tempCopyBuffer = terminalContents THEN EmptyText
    ELSE LET lines == SubSeq(terminalContents, 1, Len(terminalContents) - 1)
             lastLine == TrimLine(terminalContents[Len(terminalContents)])
             found == {i \in 1..Len(lines) : StartsWith(TrimLine(lines[i]), lastLine)}
             from == IF found = {} THEN 1 ELSE CHOOSE i \in found : \A j \in found : j <= i
         IN IF lastLine = <<>> THEN terminalContents
            ELSE Join(SubSeq(lines, from, Len(lines)))

\* What the host's clipboard may hold before a call.
ClipboardInputs == { << <<"x">> >>, << <<"o">> >>, EmptyText }

\* What the terminal may show: two commands with their output and a prompt, or
\* one line of output between blank lines.
TerminalBufferInputs ==
    { << <<PROMPT, "a">>, <<"o">>, <<PROMPT, "a">>, <<"p">>, <<PROMPT>> >>,
      << <<WS>>, <<"o">>, <<>> >> }

\* The commands argument: everything (-1, the default), nothing, or the last
\* one or two commands.
CommandsInputs == {-1, 0, 1, 2}

\* No getTerminalContents call was made yet.
IdleCall ==
    [before |-> EmptyText, i |-> 0, tempCopyBuffer |-> EmptyText,
     terminalContents |-> EmptyText, pc |-> "idle", commands |-> -1,
     result |-> EmptyText, threw |-> ""]

CInit ==
    /\ clipboard = EmptyText
    /\ terminalBuffer = <<>>
    /\ selection = 0
    /\ call = IdleCall
    /\ otherCall = IdleCall
    /\ original = EmptyText

\* ------------------------------------------------------- OutputCompressor

\* The shortest run of identical lines that is collapsed.
MinRunLength == 2

\* The word of a repetition marker, which follows a collapsed line.
REPEATED == "REPEATED"

\* The word of the marker line that stands for the lines left out.
ELIDED == "ELIDED"

\* How many lines from the start of lines equal its first line.
RECURSIVE RunLength(_)
RunLength(lines) ==
    IF Len(lines) >= 2 /\ lines[2] = lines[1] THEN 1 + RunLength(Tail(lines)) ELSE 1

\* Run-length collapse: a run of identical consecutive lines becomes the line
\* followed by the repetition marker and the count.
RECURSIVE applyRunLengthEncoding(_)
applyRunLengthEncoding(input) ==
    IF input = <<>> THEN <<>>
    ELSE LET n == RunLength(input)
             rest == applyRunLengthEncoding(SubSeq(input, n + 1, Len(input)))
         IN IF n >= MinRunLength
            THEN <<Head(input) \o <<REPEATED, ToString(n)>>>> \o rest
            ELSE <<Head(input)>> \o rest

\* Budgeted truncation: above lineLimit lines, an evenly divided head and tail
\* stay, each with a line at least, and one marker line states how many lines
\* between them were left out.
truncateOutput(content, lineLimit) ==
    LET head == IF lineLimit \div 2 >= 1 THEN lineLimit \div 2 ELSE 1
        tail == IF lineLimit - head >= 1 THEN lineLimit - head ELSE 1
    IN IF Len(content) <= lineLimit \/ Len(content) <= head + tail THEN content
       ELSE SubSeq(content, 1, head)
            \o << <<ELIDED, ToString(Len(content) - head - tail)>> >>
            \o SubSeq(content, Len(content) - tail + 1, Len(content))

\* A compression that leaves the truncation out.
compressTerminalOutput_SkipsTruncation(input, lineLimit) ==
    applyRunLengthEncoding(input)

compressTerminalOutput(input, lineLimit) ==
    truncateOutput(applyRunLengthEncoding(input), lineLimit)

\* The lines of the texts that are compressed.
CompressLines == { <<"a">>, <<"b">> }

\* The texts that are compressed: the empty one and every text of up to
\* MaxCompressLines lines.
CompressTexts ==
    {EmptyText} \cup UNION {[1..n -> CompressLines] : n \in 1..MaxCompressLines}

ZInit ==
    /\ compressIn = [input |-> EmptyText, lineLimit |-> 0]
    /\ compressOut = Undefined

NInit ==
    /\ normalizeIn = [command |-> <<>>, pass |-> 0]
    /\ normalizeOut = Undefined

\* new CheckpointService(context, telemetry)
KInit ==
    /\ isCheckpointInProgress = FALSE
    /\ pendingCheckpoints = <<>>
    /\ checkpointCalls = <<>>
    /\ executions = <<>>
    /\ queuedRequests = <<>>

\* No safeRename call was made yet.  renames counts the fsPromises.rename
\* calls of the safeRename call, errors lists the codes they failed with.
IdleRename ==
    [pc |-> "idle", source |-> "", target |-> "", attempt |-> 0, renames |-> 0,
     errors |-> <<>>]

RInit == rename = IdleRename

\* No search was made yet.
WInit ==
    /\ searchUrls = <<>>
    /\ page = ""
    /\ workers = <<>>
    /\ results = <<>>

Init == TInit /\ DInit /\ CInit /\ ZInit /\ NInit /\ KInit /\ RInit /\ WInit

\* The host activates shell integration for the terminal widget.
ShellIntegrationActivated ==
    /\ ~shellIntegration
    /\ shellIntegration' = TRUE
    /\ lastOp' = Op("shellIntegrationActivated", 0)
    /\ ret' = <<>>
    /\ NoEmit
    /\ UNCHANGED <<pureVars, staticVars, handleVars, handshakeTimeout, listVars,
                   platform, busy, running, streamClosed, process, completedProcesses,
                   procs, handshake, promise, sentText, produced, pending, doneOrder>>

\* Terminal.runCommand, up to its return: pWaitFor evaluates its condition once
\* before it returns, so the handshake starts "ready" when shell integration is
\* already there and "waiting" otherwise.
Terminal_runCommand(command) ==
    LET pid == Len(procs) + 1 IN
    /\ busy' = TRUE
    /\ procs' = Append(procs, NewTerminalProcess(normalizeCommand(platform, command)))
    /\ process' = Some(pid)
    /\ promise' = Append(promise, "pending")
    /\ listeners' = Append(listeners, {"continue", "error"})
    /\ continuedAt' = Append(continuedAt, {})
    /\ handshake' = Append(handshake, IF shellIntegration THEN "ready" ELSE "waiting")
    /\ handshakeTimeout' = Append(handshakeTimeout, shellIntegrationTimeout)
    /\ emitted' = Append(emitted, EmptyBag)
    /\ lastEmit' = Undefined
    /\ pending' = Append(pending, <<>>)
    /\ lastOp' = Op("runCommand", pid)
    /\ ret' = <<>>
    /\ UNCHANGED <<pureVars, staticVars, listVars, platform, shellIntegration, running, streamClosed,
                   completedProcesses, sentText, produced, doneOrder>>

\* A later poll of pWaitFor finds shell integration.
HandshakePoll(pid) ==
    /\ handshake[pid] = "waiting"
    /\ shellIntegration
    /\ handshake' = [handshake EXCEPT ![pid] = "ready"]
    /\ lastOp' = Op("handshakePoll", pid)
    /\ ret' = <<>>
    /\ NoEmit
    /\ UNCHANGED <<pureVars, staticVars, handleVars, handshakeTimeout, listVars,
                   platform, shellIntegration, busy, running, streamClosed, process,
                   completedProcesses, procs, promise, sentText, produced, pending,
                   doneOrder>>

\* The .then of the handshake: process.run(process.command).
HandshakeThen(pid) ==
    /\ handshake[pid] = "ready"
    /\ handshake' = [handshake EXCEPT ![pid] = "resolved"]
    /\ sentText' = sentText (+) SetToBag({procs[pid].command})
    /\ running' = TRUE
    /\ lastOp' = Op("run", pid)
    /\ ret' = <<>>
    /\ NoEmit
    /\ UNCHANGED <<pureVars, staticVars, handleVars, handshakeTimeout, listVars,
                   platform, shellIntegration, busy, streamClosed, process,
                   completedProcesses, procs, promise, produced, pending, doneOrder>>

\* The .then of the handshake when terminal.sendText throws: run() throws before
\* it sets running, the chain rejects, and the .catch handler runs.
HandshakeThenFails(pid) ==
    /\ handshake[pid] = "ready"
    /\ handshake' = [handshake EXCEPT ![pid] = "sendFailed"]
    /\ Emit(pid, "no_shell_integration", 0)
    /\ lastOp' = Op("runFailed", pid)
    /\ ret' = <<>>
    /\ UNCHANGED <<pureVars, staticVars, handleVars, handshakeTimeout, listVars,
                   platform, shellIntegration, busy, running, streamClosed, process,
                   completedProcesses, procs, promise, sentText, produced, pending,
                   doneOrder>>

\* A timeout handler that sends the command all the same.
HandshakeCatch_SendsAnyway(pid) ==
    /\ handshake[pid] = "waiting"
    /\ handshake' = [handshake EXCEPT ![pid] = "rejected"]
    /\ sentText' = sentText (+) SetToBag({procs[pid].command})
    /\ Emit(pid, "no_shell_integration", 0)
    /\ lastOp' = Op("handshakeTimeout", pid)
    /\ ret' = <<>>
    /\ UNCHANGED <<pureVars, staticVars, handleVars, handshakeTimeout, listVars,
                   platform, shellIntegration, busy, running, streamClosed,
                   process, completedProcesses, procs, promise, produced, pending,
                   doneOrder>>

\* The .catch of the handshake: the timeout elapsed first.
HandshakeCatch(pid) ==
    /\ handshake[pid] = "waiting"
    /\ handshake' = [handshake EXCEPT ![pid] = "rejected"]
    /\ Emit(pid, "no_shell_integration", 0)
    /\ lastOp' = Op("handshakeTimeout", pid)
    /\ ret' = <<>>
    /\ UNCHANGED <<pureVars, staticVars, handleVars, handshakeTimeout, listVars,
                   platform, shellIntegration, busy, running, streamClosed, process,
                   completedProcesses, procs, promise, sentText, produced, pending,
                   doneOrder>>

\* The stream is marked open before the active execution is looked for.
StreamWithoutProcess_ReopensStream ==
    /\ running' = FALSE
    /\ NoEmit
    /\ streamClosed' = FALSE

\* setActiveStream(stream) finds no active execution: it warns and returns.
StreamWithoutProcess ==
    /\ running' = FALSE
    /\ NoEmit
    /\ UNCHANGED streamClosed

Terminal_setActiveStream(stream) ==
    /\ IF stream
       THEN IF process = Undefined
            THEN StreamWithoutProcess
            ELSE /\ streamClosed' = FALSE
                 /\ \E pid \in process : Emit(pid, "stream_available", 0)
                 /\ UNCHANGED running
       ELSE /\ streamClosed' = TRUE
            /\ NoEmit
            /\ UNCHANGED running
    /\ lastOp' = Op("setActiveStream", IF stream THEN 1 ELSE 0)
    /\ ret' = <<>>
    /\ UNCHANGED <<pureVars, staticVars, handleVars, handshakeTimeout, listVars,
                   platform, shellIntegration, busy, process, completedProcesses, procs,
                   handshake, promise, sentText, produced, pending, doneOrder>>

Terminal_shellExecutionComplete(exitDetails) ==
    /\ busy' = FALSE
    /\ IF process # Undefined
       THEN \E pid \in process :
              /\ completedProcesses' =
                    IF hasUnretrievedOutput(procs[pid])
                    THEN Unshift(completedProcesses, pid)
                    ELSE completedProcesses
              /\ Emit(pid, "shell_execution_complete", exitDetails)
              /\ process' = Undefined
              /\ doneOrder' = Append(doneOrder, pid)
       ELSE /\ NoEmit
            /\ UNCHANGED <<completedProcesses, process, doneOrder>>
    /\ lastOp' = Op("shellExecutionComplete", exitDetails.exitCode)
    /\ ret' = <<>>
    /\ returnedList' = IF aliased THEN completedProcesses' ELSE returnedList
    /\ UNCHANGED <<pureVars, staticVars, handleVars, handshakeTimeout, aliased,
                   platform, shellIntegration, running, streamClosed, procs, handshake,
                   promise, sentText, produced, pending>>

Terminal_getUnretrievedOutput ==
    LET visited == DrainOrder(completedProcesses, process)
        after == [pid \in Pids |->
                    IF pid \in Range(visited) THEN drained(procs[pid]) ELSE procs[pid]]
    IN
    /\ ret' = Concat(procs, visited)
    /\ procs' = after
    /\ completedProcesses' = cleanCompletedProcessQueue(after, completedProcesses)
    /\ pending' = [pid \in Pids |->
                     IF pid \in Range(completedProcesses) \cup process
                     THEN <<>> ELSE pending[pid]]
    /\ lastOp' = Op("Terminal.getUnretrievedOutput", 0)
    /\ NoEmit
    /\ aliased' = FALSE
    /\ UNCHANGED <<pureVars, staticVars, handleVars, handshakeTimeout, returnedList,
                   platform, shellIntegration, busy, running, streamClosed, process,
                   handshake, promise, sentText, produced, doneOrder>>

\* Terminal.setShellIntegrationTimeout(timeout), a static method.
Terminal_setShellIntegrationTimeout(timeout) ==
    /\ shellIntegrationTimeout' = timeout
    /\ lastOverride' = Some(timeout)
    /\ lastOp' = Op("setShellIntegrationTimeout", timeout)
    /\ ret' = <<>>
    /\ NoEmit
    /\ UNCHANGED <<pureVars, handleVars, handshakeTimeout, listVars,
                   platform, shellIntegration, busy, running, streamClosed, process,
                   completedProcesses, procs, handshake, promise, sentText, produced,
                   pending, doneOrder>>

\* new Terminal(id, terminal, cwd) for another session: its instance fields are
\* its own, and its last statement assigns the static timeout.
Terminal_constructor ==
    /\ shellIntegrationTimeout' = getShellIntegrationTimeout(platform)
    /\ lastOp' = Op("constructor", 0)
    /\ ret' = <<>>
    /\ NoEmit
    /\ UNCHANGED <<pureVars, handleVars, handshakeTimeout, listVars, lastOverride,
                   platform, shellIntegration, busy, running, streamClosed, process,
                   completedProcesses, procs, handshake, promise, sentText, produced,
                   pending, doneOrder>>

Terminal_getProcessesWithOutput ==
    LET cleaned == cleanCompletedProcessQueue(procs, completedProcesses)
        result == Spread(cleaned)
    IN
    /\ completedProcesses' = cleaned
    /\ returnedList' = result.list
    /\ aliased' = result.shares
    /\ lastOp' = Op("getProcessesWithOutput", 0)
    /\ ret' = <<>>
    /\ NoEmit
    /\ UNCHANGED <<pureVars, staticVars, handleVars, handshakeTimeout,
                   platform, shellIntegration, busy, running, streamClosed, process,
                   procs, handshake, promise, sentText, produced, pending, doneOrder>>

\* The caller of getProcessesWithOutput changes the array it was given.  The
\* session's queue follows only if it is the same array.
CallerMutatesList(mutation) ==
    /\ returnedList # <<>>
    /\ returnedList' = Mutated(returnedList, mutation)
    /\ completedProcesses' = IF aliased THEN returnedList' ELSE completedProcesses
    /\ lastOp' = Op("mutateList", 0)
    /\ ret' = <<>>
    /\ NoEmit
    /\ UNCHANGED <<pureVars, staticVars, handleVars, handshakeTimeout, aliased,
                   platform, shellIntegration, busy, running, streamClosed, process,
                   procs, handshake, promise, sentText, produced, pending, doneOrder>>

\* A getLastCommand that reads the oldest entry of the queue.
getLastCommand_ReadsOldest ==
    IF process # Undefined
    THEN procs[CHOOSE pid \in process : TRUE].command
    ELSE IF Len(completedProcesses) > 0
         THEN procs[completedProcesses[Len(completedProcesses)]].command
         ELSE <<>>

\* The value Terminal.getLastCommand returns; runCommand always sets command,
\* so the || "" fallbacks are never taken.
getLastCommand ==
    IF process # Undefined
    THEN procs[CHOOSE pid \in process : TRUE].command
    ELSE IF Len(completedProcesses) > 0
         THEN procs[completedProcesses[1]].command
         ELSE <<>>

Terminal_getLastCommand ==
    /\ ret' = getLastCommand
    /\ lastOp' = Op("getLastCommand", 0)
    /\ NoEmit
    /\ UNCHANGED <<pureVars, staticVars, handleVars, handshakeTimeout, listVars,
                   platform, shellIntegration, busy, running, streamClosed, process,
                   completedProcesses, procs, handshake, promise, sentText, produced,
                   pending, doneOrder>>

\* TerminalProcess.getUnretrievedOutput through the handle of execution pid.
TerminalProcess_getUnretrievedOutput(pid) ==
    /\ ret' = unretrievedOutputOf(procs[pid])
    /\ procs' = [procs EXCEPT ![pid] = drained(@)]
    /\ pending' = [pending EXCEPT ![pid] = <<>>]
    /\ lastOp' = Op("TerminalProcess.getUnretrievedOutput", pid)
    /\ NoEmit
    /\ UNCHANGED <<pureVars, staticVars, handleVars, handshakeTimeout, listVars,
                   platform, shellIntegration, busy, running, streamClosed, process,
                   completedProcesses, handshake, promise, sentText, produced,
                   doneOrder>>

\* TerminalProcess.addOutput(output) on execution pid.
TerminalProcess_addOutput(pid, output) ==
    /\ procs' = [procs EXCEPT ![pid] = addOutput(@, output)]
    /\ pending' = [pending EXCEPT ![pid] = @ \o output]
    /\ produced' = produced + Len(output)
    /\ lastOp' = Op("addOutput", pid)
    /\ ret' = <<>>
    /\ NoEmit
    /\ UNCHANGED <<pureVars, staticVars, handleVars, handshakeTimeout, listVars,
                   platform, shellIntegration, busy, running, streamClosed, process,
                   completedProcesses, handshake, promise, sentText, doneOrder>>

\* TerminalProcess.setLastRetrievedIndex(index) on execution pid.
TerminalProcess_setLastRetrievedIndex(pid, index) ==
    /\ procs' = [procs EXCEPT ![pid].lastRetrievedIndex = index]
    /\ lastOp' = Op("setLastRetrievedIndex", pid)
    /\ ret' = <<>>
    /\ NoEmit
    /\ UNCHANGED <<pureVars, staticVars, handleVars, handshakeTimeout, listVars,
                   platform, shellIntegration, busy, running, streamClosed, process,
                   completedProcesses, handshake, promise, sentText, produced,
                   pending, doneOrder>>

\* The promise after resolve() or reject(): only a pending promise settles.
settled(state, outcome) == IF state = "pending" THEN outcome ELSE state

\* A continue() that also ends the execution, as a completion does.
TerminalProcess_continue_Detaches(pid) ==
    /\ promise' = [promise EXCEPT ![pid] = settled(@, "resolved")]
    /\ listeners' = [listeners EXCEPT ![pid] = @ \ {"continue"}]
    /\ continuedAt' = [continuedAt EXCEPT ![pid] = IF @ = {} THEN {produced} ELSE @]
    /\ Emit(pid, "continue", 0)
    /\ lastOp' = Op("continue", pid)
    /\ ret' = <<>>
    /\ busy' = FALSE
    /\ process' = process \ {pid}
    /\ UNCHANGED <<pureVars, staticVars, handshakeTimeout, listVars, platform, shellIntegration, running, streamClosed,
                   completedProcesses, procs, handshake, sentText, produced, pending,
                   doneOrder>>

\* TerminalProcess.continue() on execution pid, directly or through the handle
\* (mergePromise's continue delegates to it): emit("continue") runs the
\* once-listener of runCommand, which resolves the promise.
TerminalProcess_continue(pid) ==
    /\ promise' = IF "continue" \in listeners[pid]
                  THEN [promise EXCEPT ![pid] = settled(@, "resolved")]
                  ELSE promise
    /\ listeners' = [listeners EXCEPT ![pid] = @ \ {"continue"}]
    /\ continuedAt' = [continuedAt EXCEPT ![pid] = IF @ = {} THEN {produced} ELSE @]
    /\ Emit(pid, "continue", 0)
    /\ lastOp' = Op("continue", pid)
    /\ ret' = <<>>
    /\ UNCHANGED <<pureVars, staticVars, handshakeTimeout, listVars, platform, shellIntegration, busy, running, streamClosed, process,
                   completedProcesses, procs, handshake, sentText, produced, pending,
                   doneOrder>>

\* process.emit("error", error) on execution pid: the once-listener of
\* runCommand logs the error and rejects the promise.  With no listener left
\* EventEmitter throws the error back at the emitter.
TerminalProcess_emitError(pid) ==
    /\ IF "error" \in listeners[pid]
       THEN /\ promise' = [promise EXCEPT ![pid] = settled(@, "rejected")]
            /\ listeners' = [listeners EXCEPT ![pid] = @ \ {"error"}]
            /\ Emit(pid, "error", 0)
            /\ ret' = <<>>
       ELSE /\ NoEmit
            /\ ret' = <<"throws">>
            /\ UNCHANGED <<promise, listeners>>
    /\ lastOp' = Op("emitError", pid)
    /\ UNCHANGED <<pureVars, staticVars, handshakeTimeout, listVars, platform, shellIntegration, busy, running, streamClosed, process,
                   completedProcesses, procs, handshake, sentText, produced, pending,
                   doneOrder, continuedAt>>

\* The host's next chunk: the output stream of the active execution is the one
\* producer, and every chunk carries the next mark.
NextChunk == <<ToString(produced + 1)>>

\* The output specification: the operations that read or write the output
\* buffers and the queue of completed executions.  The operations it leaves to
\* the session specification below write none of these.
NextOutput ==
    \/ \E command \in CommandInputs :
          Len(procs) < MaxProcs /\ Terminal_runCommand(command)
    \/ \E code \in ExitCodeInputs :
          Terminal_shellExecutionComplete(interpretExitCode(code, Undefined, Undefined))
    \/ Terminal_getUnretrievedOutput
    \/ Terminal_getLastCommand
    \/ \E pid \in Pids : TerminalProcess_getUnretrievedOutput(pid)
    \/ \E pid \in process :
          produced < MaxChunks /\ TerminalProcess_addOutput(pid, NextChunk)

SpecOutput == Init /\ [][NextOutput]_vars

\* The queue specification: one session whose consumer lists the completed
\* executions, changes the list it got and drains executions.
NextQueue ==
    \/ \E command \in HandleCommandInputs :
          Len(procs) < MaxQueueProcs /\ Terminal_runCommand(command)
    \/ \E code \in ExitCodeInputs :
          Terminal_shellExecutionComplete(interpretExitCode(code, Undefined, Undefined))
    \/ \E pid \in process :
          produced < MaxQueueChunks /\ TerminalProcess_addOutput(pid, NextChunk)
    \/ \E pid \in Pids : TerminalProcess_getUnretrievedOutput(pid)
    \/ Terminal_getUnretrievedOutput
    \/ Terminal_getProcessesWithOutput
    \/ \E mutation \in ListMutations : CallerMutatesList(mutation)

SpecQueue == Init /\ [][NextQueue]_vars

\* The timeout specification: one session that runs commands while a caller
\* overrides the handshake timeout and other sessions are created.
NextTimeout ==
    \/ \E timeout \in TimeoutInputs : Terminal_setShellIntegrationTimeout(timeout)
    \/ Terminal_constructor
    \/ \E command \in HandleCommandInputs :
          Len(procs) < MaxTimeoutProcs /\ Terminal_runCommand(command)
    \/ \E code \in ExitCodeInputs :
          Terminal_shellExecutionComplete(interpretExitCode(code, Undefined, Undefined))

SpecTimeout == Init /\ [][NextTimeout]_vars

\* The send specification: the handshake of each command and its two
\* continuations, with a terminal whose sendText may throw.
NextSend ==
    \/ ShellIntegrationActivated
    \/ \E command \in CommandInputs :
          Len(procs) < MaxSendProcs /\ Terminal_runCommand(command)
    \/ \E pid \in Pids : HandshakePoll(pid)
    \/ \E pid \in Pids : HandshakeThen(pid)
    \/ \E pid \in Pids : HandshakeThenFails(pid)
    \/ \E pid \in Pids : HandshakeCatch(pid)
    \/ \E code \in ExitCodeInputs :
          Terminal_shellExecutionComplete(interpretExitCode(code, Undefined, Undefined))

SpecSend == Init /\ [][NextSend]_vars

\* The sequential specification: a consumer that runs a command only when the
\* session is not busy, and drains through the session.
NextSequential ==
    \/ \E command \in CommandInputs :
          /\ Len(procs) < MaxSequentialProcs
          /\ ~busy
          /\ Terminal_runCommand(command)
    \/ \E pid \in process :
          produced < MaxSequentialChunks /\ TerminalProcess_addOutput(pid, NextChunk)
    \/ \E code \in ExitCodeInputs :
          Terminal_shellExecutionComplete(interpretExitCode(code, Undefined, Undefined))
    \/ Terminal_getUnretrievedOutput

SpecSequential == Init /\ [][NextSequential]_vars

\* The index specification: one session whose consumer moves the retrieval
\* index of its executions while they produce output.
NextIndex ==
    \/ \E command \in HandleCommandInputs :
          Len(procs) < MaxIndexProcs /\ Terminal_runCommand(command)
    \/ \E code \in ExitCodeInputs :
          Terminal_shellExecutionComplete(interpretExitCode(code, Undefined, Undefined))
    \/ \E pid \in process :
          produced < MaxIndexChunks /\ TerminalProcess_addOutput(pid, NextChunk)
    \/ \E pid \in Pids : TerminalProcess_getUnretrievedOutput(pid)
    \/ \E pid \in Pids, index \in IndexInputs :
          TerminalProcess_setLastRetrievedIndex(pid, index)

SpecIndex == Init /\ [][NextIndex]_vars

\* The session specification: the operations of the session, the continuations
\* of its handshake and the host.
Next ==
    \/ ShellIntegrationActivated
    \/ \E command \in CommandInputs :
          Len(procs) < MaxSessionProcs /\ Terminal_runCommand(command)
    \/ \E pid \in Pids : HandshakePoll(pid)
    \/ \E pid \in Pids : HandshakeThen(pid)
    \/ \E pid \in Pids : HandshakeCatch(pid)
    \/ \E stream \in BOOLEAN : Terminal_setActiveStream(stream)
    \/ \E code \in ExitCodeInputs :
          Terminal_shellExecutionComplete(interpretExitCode(code, Undefined, Undefined))
    \/ Terminal_getUnretrievedOutput
    \/ \E pid \in process :
          produced < MaxSessionChunks /\ TerminalProcess_addOutput(pid, NextChunk)

Spec == Init /\ [][Next]_vars

\* The handle specification: a command's handshake, its completion and the
\* promise runCommand returned, with the consumers of the handle.
NextHandle ==
    \/ ShellIntegrationActivated
    \/ \E command \in HandleCommandInputs :
          Len(procs) < MaxHandleProcs /\ Terminal_runCommand(command)
    \/ \E pid \in Pids : HandshakePoll(pid)
    \/ \E pid \in Pids : HandshakeThen(pid)
    \/ \E pid \in Pids : HandshakeThenFails(pid)
    \/ \E pid \in Pids : HandshakeCatch(pid)
    \/ \E code \in ExitCodeInputs :
          Terminal_shellExecutionComplete(interpretExitCode(code, Undefined, Undefined))
    \/ \E pid \in Pids : TerminalProcess_continue(pid)
    \/ \E pid \in Pids : TerminalProcess_emitError(pid)
    \/ Terminal_getUnretrievedOutput
    \/ \E pid \in process :
          produced < MaxHandleChunks /\ TerminalProcess_addOutput(pid, NextChunk)

SpecHandle == Init /\ [][NextHandle]_vars

\* The decoder specification: one interpretExitCode call after another, on every
\* combination of arguments.
Decode(args) ==
    /\ decodeIn' = args
    /\ decodeOut' = Some(interpretExitCode(args.code, args.signal, args.coreDumpPossible))
    /\ UNCHANGED <<termVars, serviceVars, clipVars, compressVars, normalizeVars>>

NextDecode == \E args \in DecodeInputs : Decode(args)

SpecDecode == Init /\ [][NextDecode]_vars

\* The normaliser specification: normalizeCommand on every command, and once
\* more on what it returned.
Normalize(command) ==
    /\ normalizeIn' = [command |-> command, pass |-> 1]
    /\ normalizeOut' = Some(normalizeCommand(platform, command))
    /\ UNCHANGED <<termVars, serviceVars, decodeVars, clipVars, compressVars>>

NormalizeAgain ==
    \E command \in normalizeOut :
       /\ normalizeIn' = [command |-> command, pass |-> normalizeIn.pass + 1]
       /\ normalizeOut' = Some(normalizeCommand(platform, command))
       /\ UNCHANGED <<termVars, serviceVars, decodeVars, clipVars, compressVars>>

NextNormalize ==
    \/ \E command \in NormalizeInputs : normalizeIn.pass = 0 /\ Normalize(command)
    \/ normalizeIn.pass = 1 /\ NormalizeAgain

SpecNormalize == Init /\ [][NextNormalize]_vars

\* The compressor specification: one compressTerminalOutput call after
\* another, on every text and line limit.
Compress(input, lineLimit) ==
    /\ compressIn' = [input |-> input, lineLimit |-> lineLimit]
    /\ compressOut' = Some(compressTerminalOutput(input, lineLimit))
    /\ UNCHANGED <<termVars, serviceVars, decodeVars, clipVars, normalizeVars>>

NextCompress ==
    \E input \in CompressTexts, lineLimit \in 0..MaxLineLimit : Compress(input, lineLimit)

SpecCompress == Init /\ [][NextCompress]_vars

\* ------------------------------------------- Terminal.getTerminalContents

\* No call is in flight.
CallOver == call.pc \in {"idle", "returned", "thrown"}

\* The user copies a text.
UserCopies(text) ==
    /\ CallOver
    /\ clipboard' = text
    /\ call' = IdleCall
    /\ UNCHANGED <<termVars, serviceVars, decodeVars, compressVars, normalizeVars, otherCall, original,
                   terminalBuffer, selection>>

\* The terminal shows other lines.
TerminalShows(buffer) ==
    /\ CallOver
    /\ terminalBuffer' = buffer
    /\ selection' = 0
    /\ call' = IdleCall
    /\ UNCHANGED <<termVars, serviceVars, decodeVars, compressVars, normalizeVars, otherCall, original,
                   clipboard>>

\* The text of the selection.
selectedText == SubSeq(terminalBuffer, selection, Len(terminalBuffer))

\* workbench.action.terminal.selectToPreviousCommand: the selection grows up to
\* the nearest prompt line above it, if there is one.
previousCommand ==
    LET cur == IF selection = 0 THEN Len(terminalBuffer) + 1 ELSE selection
        above == {j \in 1..(cur - 1) : StartsWith(terminalBuffer[j], <<PROMPT>>)}
    IN IF above = {} THEN selection ELSE CHOOSE j \in above : \A k \in above : k <= j

\* The step at which a failed await leaves the call: the catch block inside the
\* try, the caller outside it.
Throw(step) == [call EXCEPT !.pc = "catch", !.threw = step]

\* getTerminalContents(commands) is called: it runs up to its first await.
getTerminalContents_call(commands) ==
    /\ CallOver
    /\ call' = [IdleCall EXCEPT !.pc = "readTemp", !.commands = commands,
                                !.before = clipboard]
    /\ original' = IF otherCall.pc \in {"idle", "returned", "thrown"}
                   THEN clipboard ELSE original
    /\ UNCHANGED <<termVars, serviceVars, decodeVars, compressVars, normalizeVars, otherCall,
                   clipboard, terminalBuffer, selection>>

\* const tempCopyBuffer = await clipboard.readText(), before the try.
getTerminalContents_readTemp ==
    /\ call.pc = "readTemp"
    /\ \E throws \in BOOLEAN :
          call' = IF throws
                  THEN [call EXCEPT !.pc = "thrown", !.threw = "readTemp"]
                  ELSE [call EXCEPT !.tempCopyBuffer = clipboard,
                                    !.pc = IF call.commands < 0 THEN "selectAll"
                                           ELSE IF call.commands > 0 THEN "selectPrevious"
                                           ELSE "copySelection"]
    /\ UNCHANGED <<termVars, serviceVars, decodeVars, compressVars, normalizeVars, otherCall, original,
                   clipboard, terminalBuffer, selection>>

\* await executeCommand("workbench.action.terminal.selectAll")
getTerminalContents_selectAll ==
    /\ call.pc = "selectAll"
    /\ \E throws \in BOOLEAN :
          IF throws
          THEN call' = Throw("selectAll") /\ UNCHANGED selection
          ELSE /\ call' = [call EXCEPT !.pc = "copySelection"]
               /\ selection' = IF terminalBuffer = <<>> THEN 0 ELSE 1
    /\ UNCHANGED <<termVars, serviceVars, decodeVars, compressVars, normalizeVars, otherCall, original,
                   clipboard, terminalBuffer>>

\* One round of the loop: await executeCommand("...selectToPreviousCommand")
getTerminalContents_selectPrevious ==
    /\ call.pc = "selectPrevious"
    /\ \E throws \in BOOLEAN :
          IF throws
          THEN call' = Throw("selectPrevious") /\ UNCHANGED selection
          ELSE /\ call' = [call EXCEPT !.i = @ + 1,
                                       !.pc = IF call.i + 1 < call.commands
                                              THEN "selectPrevious" ELSE "copySelection"]
               /\ selection' = previousCommand
    /\ UNCHANGED <<termVars, serviceVars, decodeVars, compressVars, normalizeVars, otherCall, original,
                   clipboard, terminalBuffer>>

\* await executeCommand("...copySelection"): an empty selection copies nothing,
\* and a copy that fails may have reached the clipboard or not.
getTerminalContents_copySelection ==
    /\ call.pc = "copySelection"
    /\ LET copied == IF selection = 0 THEN clipboard ELSE selectedText IN
       \E throws \in BOOLEAN :
          IF throws
          THEN call' = Throw("copySelection") /\ clipboard' \in {clipboard, copied}
          ELSE call' = [call EXCEPT !.pc = "clearSelection"] /\ clipboard' = copied
    /\ UNCHANGED <<termVars, serviceVars, decodeVars, compressVars, normalizeVars, otherCall, original,
                   terminalBuffer, selection>>

\* await executeCommand("...clearSelection")
getTerminalContents_clearSelection ==
    /\ call.pc = "clearSelection"
    /\ \E throws \in BOOLEAN :
          IF throws
          THEN call' = Throw("clearSelection") /\ UNCHANGED selection
          ELSE call' = [call EXCEPT !.pc = "readContents"] /\ selection' = 0
    /\ UNCHANGED <<termVars, serviceVars, decodeVars, compressVars, normalizeVars, otherCall, original,
                   clipboard, terminalBuffer>>

\* let terminalContents = (await clipboard.readText()).trim()
getTerminalContents_readContents ==
    /\ call.pc = "readContents"
    /\ \E throws \in BOOLEAN :
          call' = IF throws
                  THEN Throw("readContents")
                  ELSE [call EXCEPT !.terminalContents = Trim(clipboard),
                                    !.pc = "writeBack"]
    /\ UNCHANGED <<termVars, serviceVars, decodeVars, compressVars, normalizeVars, otherCall, original,
                   clipboard, terminalBuffer, selection>>

\* await clipboard.writeText(tempCopyBuffer) and, without another await, the
\* rest of the try block up to its return.  A write that fails may have
\* reached the clipboard or not.
getTerminalContents_writeBack ==
    /\ call.pc = "writeBack"
    /\ \E throws \in BOOLEAN :
          IF throws
          THEN /\ call' = Throw("writeBack")
               /\ clipboard' \in {clipboard, call.tempCopyBuffer}
          ELSE /\ call' = [call EXCEPT
                             !.pc = "returned",
                             !.result = snapshot(call.tempCopyBuffer, call.terminalContents)]
               /\ clipboard' = call.tempCopyBuffer
    /\ UNCHANGED <<termVars, serviceVars, decodeVars, compressVars, normalizeVars, otherCall, original,
                   terminalBuffer, selection>>

\* A failure handler that rethrows without writing the clipboard back.
getTerminalContents_catch_OnlyRethrows ==
    /\ call.pc = "catch"
    /\ call' = [call EXCEPT !.pc = "thrown"]
    /\ UNCHANGED <<termVars, serviceVars, decodeVars, compressVars, normalizeVars, otherCall, original,
                   clipboard, terminalBuffer, selection>>

\* The catch block: await clipboard.writeText(tempCopyBuffer); throw error.
\* When this write fails its own error leaves the call.
getTerminalContents_catch ==
    /\ call.pc = "catch"
    /\ \E throws \in BOOLEAN :
          IF throws
          THEN /\ call' = [call EXCEPT !.pc = "thrown", !.threw = "catch"]
               /\ clipboard' \in {clipboard, call.tempCopyBuffer}
          ELSE /\ call' = [call EXCEPT !.pc = "thrown"]
               /\ clipboard' = call.tempCopyBuffer
    /\ UNCHANGED <<termVars, serviceVars, decodeVars, compressVars, normalizeVars, otherCall, original,
                   terminalBuffer, selection>>

\* The event loop resumes the other call: the call that ran is suspended at
\* its await (or has ended) and the suspended one runs its next step.
SwitchCall ==
    /\ call # otherCall
    /\ call' = otherCall
    /\ otherCall' = call
    /\ UNCHANGED <<termVars, serviceVars, decodeVars, compressVars, normalizeVars, original,
                   clipboard, terminalBuffer, selection>>

\* The snapshot specification: one getTerminalContents call after another, the
\* user and the terminal acting between the calls.
NextClipboard ==
    \/ \E text \in ClipboardInputs : UserCopies(text)
    \/ \E buffer \in TerminalBufferInputs : TerminalShows(buffer)
    \/ \E commands \in CommandsInputs : getTerminalContents_call(commands)
    \/ getTerminalContents_readTemp
    \/ getTerminalContents_selectAll
    \/ getTerminalContents_selectPrevious
    \/ getTerminalContents_copySelection
    \/ getTerminalContents_clearSelection
    \/ getTerminalContents_readContents
    \/ getTerminalContents_writeBack
    \/ getTerminalContents_catch

SpecClipboard == Init /\ [][NextClipboard]_vars

\* No call was made yet.
NoCallYet == call.pc = "idle" /\ otherCall.pc = "idle"

\* The interleaving specification: the user and the terminal set the scene,
\* then two getTerminalContents calls are made and run interleaved at their
\* awaits.
NextInterleaved ==
    \/ \E text \in ClipboardInputs : NoCallYet /\ UserCopies(text)
    \/ \E buffer \in TerminalBufferInputs : NoCallYet /\ TerminalShows(buffer)
    \/ \E commands \in CommandsInputs :
          call.pc = "idle" /\ getTerminalContents_call(commands)
    \/ SwitchCall
    \/ getTerminalContents_readTemp
    \/ getTerminalContents_selectAll
    \/ getTerminalContents_selectPrevious
    \/ getTerminalContents_copySelection
    \/ getTerminalContents_clearSelection
    \/ getTerminalContents_readContents
    \/ getTerminalContents_writeBack
    \/ getTerminalContents_catch

SpecInterleaved == Init /\ [][NextInterleaved]_vars

\* ------------------------------------------------------ CheckpointService

\* shared/checkpoints normalizePath: path.replace(/\\/g, '/')
normalizePath(path) == ReplaceAll(path, BACKSLASH, <<"/">>)

\* Set.prototype.add on a set kept in insertion order.
SetAdd(set, x) == IF x \in Range(set) THEN set ELSE Append(set, x)

\* createCheckpoint(taskId, workspaceRoot) up to its first await, the one on
\* platformPreCheckpointChecks.
NewCheckpointCall(taskId, workspaceRoot, fromQueue) ==
    [pc |-> "preChecks", result |-> "", threw |-> "", taskId |-> taskId,
     workspaceRoot |-> workspaceRoot, fromQueue |-> fromQueue,
     normalizedPath |-> normalizePath(workspaceRoot)]

\* The calls that are between the start and the end of executeCheckpoint.
Executing == {c \in DOMAIN checkpointCalls : checkpointCalls[c].pc = "executing"}

\* A caller calls createCheckpoint(taskId, workspaceRoot).
CheckpointService_createCheckpoint(taskId, workspaceRoot) ==
    /\ checkpointCalls' =
          Append(checkpointCalls, NewCheckpointCall(taskId, workspaceRoot, FALSE))
    /\ UNCHANGED <<termVars, decodeVars, clipVars, compressVars, normalizeVars,
                   rename, searchVars,
                   isCheckpointInProgress, pendingCheckpoints, executions, queuedRequests>>

\* The catch block: the flag is cleared and the call returns undefined.
createCheckpoint_catch(c, step) ==
    /\ isCheckpointInProgress' = FALSE
    /\ checkpointCalls' = [checkpointCalls EXCEPT ![c].pc = "returned",
                                                  ![c].result = "undefined",
                                                  ![c].threw = step]
    /\ UNCHANGED <<pendingCheckpoints, executions, queuedRequests>>

\* Call c resumes after the await on platformPreCheckpointChecks: the request
\* is queued when a checkpoint is in progress, and starts executeCheckpoint
\* otherwise, up to the await on it.
createCheckpoint_afterPreChecks(c) ==
    /\ checkpointCalls[c].pc = "preChecks"
    /\ \E throws \in BOOLEAN :
          IF throws
          THEN createCheckpoint_catch(c, "preChecks")
          ELSE IF isCheckpointInProgress
          THEN /\ pendingCheckpoints' =
                     SetAdd(pendingCheckpoints, checkpointCalls[c].taskId)
               /\ queuedRequests' =
                     Append(queuedRequests, <<checkpointCalls[c].taskId,
                                              checkpointCalls[c].normalizedPath>>)
               /\ checkpointCalls' = [checkpointCalls EXCEPT ![c].pc = "returned",
                                                             ![c].result = "undefined"]
               /\ UNCHANGED <<isCheckpointInProgress, executions>>
          ELSE /\ isCheckpointInProgress' = TRUE
               /\ executions' =
                     Append(executions, <<c, checkpointCalls[c].taskId,
                                          checkpointCalls[c].normalizedPath>>)
               /\ checkpointCalls' = [checkpointCalls EXCEPT ![c].pc = "executing"]
               /\ UNCHANGED <<pendingCheckpoints, queuedRequests>>
    /\ UNCHANGED <<termVars, decodeVars, clipVars, compressVars, normalizeVars,
                   rename, searchVars>>

\* Call c resumes after the await on executeCheckpoint: telemetry, the flag
\* cleared, and processPendingCheckpoints(normalizedPath), which takes the
\* first pending task id and calls createCheckpoint with it and with the path
\* of call c, up to that call's first await.
createCheckpoint_afterExecute(c) ==
    /\ checkpointCalls[c].pc = "executing"
    /\ \E step \in {"", "executeCheckpoint", "captureCheckpointCreated"} :
          IF step # ""
          THEN createCheckpoint_catch(c, step)
          ELSE LET done == [checkpointCalls EXCEPT ![c].pc = "returned",
                                                   ![c].result = "commitHash"]
               IN
               /\ isCheckpointInProgress' = FALSE
               /\ IF Len(pendingCheckpoints) > 0
                  THEN /\ pendingCheckpoints' = Tail(pendingCheckpoints)
                       /\ checkpointCalls' =
                             Append(done,
                                    NewCheckpointCall(Head(pendingCheckpoints),
                                                      checkpointCalls[c].normalizedPath,
                                                      TRUE))
                  ELSE /\ checkpointCalls' = done
                       /\ UNCHANGED pendingCheckpoints
               /\ UNCHANGED <<executions, queuedRequests>>
    /\ UNCHANGED <<termVars, decodeVars, clipVars, compressVars, normalizeVars,
                   rename, searchVars>>

\* The calls a caller made, those the service made for queued requests left out.
CallerCalls == {c \in DOMAIN checkpointCalls : ~checkpointCalls[c].fromQueue}

\* The checkpoint specification: callers request checkpoints at any time, and
\* every call resumes after each of its awaits, in any order.
NextCheckpoint ==
    \/ \E taskId \in TaskIds, workspaceRoot \in WorkspaceRoots :
          /\ Cardinality(CallerCalls) < MaxCheckpointCalls
          /\ CheckpointService_createCheckpoint(taskId, workspaceRoot)
    \/ \E c \in DOMAIN checkpointCalls : createCheckpoint_afterPreChecks(c)
    \/ \E c \in DOMAIN checkpointCalls : createCheckpoint_afterExecute(c)

SpecCheckpoint == Init /\ [][NextCheckpoint]_vars

\* --------------------------------------------------- WindowsPlatformUtils

maxRetries == 3

\* A test that retries after any error.
retries_AfterAnyError(code, attempt) == attempt < maxRetries

\* error.code === 'EACCES' && attempt < maxRetries
retries(code, attempt) == code = "EACCES" /\ attempt < maxRetries

\* No call is in flight.
RenameOver == rename.pc \in {"idle", "returned", "thrown"}

\* safeRename(source, target) is called: attempt 1 calls fsPromises.rename and
\* awaits it.
WindowsPlatformUtils_safeRename(source, target) ==
    /\ RenameOver
    /\ rename' = [IdleRename EXCEPT !.pc = "rename", !.source = source,
                                    !.target = target, !.attempt = 1, !.renames = 1]
    /\ UNCHANGED <<termVars, decodeVars, clipVars, compressVars, normalizeVars,
                   checkpointVars, searchVars>>

\* fsPromises.rename resolves: return.
safeRename_renamed ==
    /\ rename.pc = "rename"
    /\ rename' = [rename EXCEPT !.pc = "returned"]
    /\ UNCHANGED <<termVars, decodeVars, clipVars, compressVars, normalizeVars,
                   checkpointVars, searchVars>>

\* fsPromises.rename rejects with code: the catch block waits for a retry or
\* throws.
safeRename_catch(code) ==
    /\ rename.pc = "rename"
    /\ rename' = [rename EXCEPT !.errors = Append(@, code),
                                !.pc = IF retries(code, rename.attempt)
                                       THEN "delay" ELSE "thrown"]
    /\ UNCHANGED <<termVars, decodeVars, clipVars, compressVars, normalizeVars,
                   checkpointVars, searchVars>>

\* The retry delay is over: continue, attempt++, the loop test, and the next
\* fsPromises.rename; past maxRetries the loop ends and the call returns.
safeRename_continue ==
    /\ rename.pc = "delay"
    /\ rename' = IF rename.attempt + 1 <= maxRetries
                 THEN [rename EXCEPT !.attempt = @ + 1, !.renames = @ + 1,
                                     !.pc = "rename"]
                 ELSE [rename EXCEPT !.attempt = @ + 1, !.pc = "returned"]
    /\ UNCHANGED <<termVars, decodeVars, clipVars, compressVars, normalizeVars,
                   checkpointVars, searchVars>>

\* A step of the call in flight.
safeRename_step ==
    \/ safeRename_renamed
    \/ \E code \in RenameErrors : safeRename_catch(code)
    \/ safeRename_continue

\* The rename specification: one safeRename call after another, every rename
\* succeeding or failing with any code.  The file system settles every rename
\* and the timer of every delay fires.
NextRename ==
    \/ \E source \in RenameFiles, target \in RenameFiles :
          WindowsPlatformUtils_safeRename(source, target)
    \/ safeRename_renamed
    \/ \E code \in RenameErrors : safeRename_catch(code)
    \/ safeRename_continue

SpecRename == Init /\ [][NextRename]_vars /\ WF_vars(safeRename_step)

\* ------------------------------------------------------- WebSearchService

\* .slice(0, 5)
TopResults == 5

\* Array.prototype.slice(0, end).
slice(s, end) == SubSeq(s, 1, IF Len(s) < end THEN Len(s) ELSE end)

\* Promise.all has settled: every callback ended.
SearchOver == \A i \in DOMAIN workers : workers[i] \in {"pushed", "caught"}

\* searchAndAnalyze up to Promise.all: a new page shows the result list, the
\* top links are taken, and each callback runs to its await of page.goto on
\* that one page.
searchAndAnalyze(hits) ==
    /\ SearchOver
    /\ searchUrls' = slice(hits, TopResults)
    /\ page' = ""
    /\ workers' = [i \in 1..Len(slice(hits, TopResults)) |-> "goto"]
    /\ results' = <<>>
    /\ UNCHANGED <<termVars, decodeVars, clipVars, compressVars, normalizeVars,
                   checkpointVars, rename>>

\* The page commits the navigation a pending goto asked for: it shows that URL.
page_navigated(index) ==
    /\ index \in DOMAIN workers
    /\ workers[index] = "goto"
    /\ page' = searchUrls[index]
    /\ UNCHANGED <<termVars, decodeVars, clipVars, compressVars, normalizeVars,
                   checkpointVars, rename, searchUrls, workers, results>>

\* page.goto of a callback resolves, the page showing a result URL: the
\* callback goes on to analyzePage.
goto_resolved(index) ==
    /\ index \in DOMAIN workers
    /\ workers[index] = "goto"
    /\ page # ""
    /\ workers' = [workers EXCEPT ![index] = "analyzePage"]
    /\ UNCHANGED <<termVars, decodeVars, clipVars, compressVars, normalizeVars,
                   checkpointVars, rename, searchUrls, page, results>>

\* page.goto of a callback rejects (superseded navigation, timeout): the catch
\* block logs the error and the callback ends without a result.
goto_rejected(index) ==
    /\ index \in DOMAIN workers
    /\ workers[index] = "goto"
    /\ workers' = [workers EXCEPT ![index] = "caught"]
    /\ UNCHANGED <<termVars, decodeVars, clipVars, compressVars, normalizeVars,
                   checkpointVars, rename, searchUrls, page, results>>

\* analyzePage(page, url) reads page.content(), the content of what the page
\* shows now, and the callback pushes it as the result of its own url.
analyzePage(index) ==
    /\ index \in DOMAIN workers
    /\ workers[index] = "analyzePage"
    /\ results' = Append(results, <<searchUrls[index], page>>)
    /\ workers' = [workers EXCEPT ![index] = "pushed"]
    /\ UNCHANGED <<termVars, decodeVars, clipVars, compressVars, normalizeVars,
                   checkpointVars, rename, searchUrls, page>>

\* The search specification: one search after another, the navigations of the
\* parallel callbacks committed and settled in any order.
NextSearch ==
    \/ \E hits \in SearchHits : searchAndAnalyze(hits)
    \/ \E index \in 1..MaxSearchHits :
          \/ page_navigated(index)
          \/ goto_resolved(index)
          \/ goto_rejected(index)
          \/ analyzePage(index)

SpecSearch == Init /\ [][NextSearch]_vars

\* ------------------------------------------------------------------ claims

\* The executions the session holds: the completed ones in its queue and the
\* active one.
Held == Range(completedProcesses) \cup process

RECURSIVE PendingText(_)
\* The chunks added since their last drain to the executions ps, in that order.
PendingText(ps) ==
    IF ps = <<>> THEN <<>> ELSE pending[Head(ps)] \o PendingText(Tail(ps))

RECURSIVE PendingLen(_)
PendingLen(S) ==
    IF S = {} THEN 0
    ELSE LET pid == CHOOSE x \in S : TRUE IN Len(pending[pid]) + PendingLen(S \ {pid})

\* C1: a runCommand call issued while busy is rejected: the in-flight execution
\* stays the active one, with its command and its unretrieved output unchanged.
C1_BusyRunCommandRejected ==
    [][(busy /\ lastOp'.op = "runCommand")
          => /\ process' = process
             /\ \A pid \in process : procs'[pid] = procs[pid]]_vars

\* The queued executions in the order they completed, oldest first.
CompletionOrder == SelectSeq(doneOrder, LAMBDA pid : pid \in Range(completedProcesses))

\* E1 and E2 completed in that order and hold undrained output, and the active
\* E3 holds buffered output.
C2_Scenario ==
    /\ Len(completedProcesses) = 2
    /\ \A pid \in Range(completedProcesses) : pending[pid] # <<>>
    /\ \E pid \in process : pending[pid] # <<>>

\* C2: with E1 and E2 completed in that order and E3 active, all three holding
\* output, Terminal.getUnretrievedOutput returns E1's text, then E2's, then E3's.
C2_OldestCompletedFirst ==
    [][(C2_Scenario /\ lastOp'.op = "Terminal.getUnretrievedOutput")
          => ret' = PendingText(CompletionOrder \o DrainOrder(<<>>, process))]_vars

\* C3: of two consecutive getUnretrievedOutput calls, on an execution or on the
\* session, the first returns the chunks added since the previous drain and
\* leaves nothing to retrieve, and the second returns the empty text.
C3_DrainTwiceReturnsTextThenEmpty ==
    [][/\ lastOp'.op = "TerminalProcess.getUnretrievedOutput"
            => /\ ret' = pending[lastOp'.arg]
               /\ ~hasUnretrievedOutput(procs'[lastOp'.arg])
               /\ lastOp'.again => ret' = <<>>
       /\ lastOp'.op = "Terminal.getUnretrievedOutput"
            => /\ Len(ret') = PendingLen(Held)
               /\ Range(ret') = UNION {Range(pending[pid]) : pid \in Held}
               /\ \A pid \in Held : ~hasUnretrievedOutput(procs'[pid])
               /\ lastOp'.again => ret' = <<>>]_vars

\* The session was drained twice in a row: the first drain returned two chunks or
\* more, the second nothing.
C3_Witness ==
    /\ lastOp.op = "Terminal.getUnretrievedOutput"
    /\ lastOp.again
    /\ Len(lastOp.before) >= 2
    /\ ret = <<>>

\* A result of the decoder for a call with the code alone.
DecodedAlone(d) ==
    /\ d \in decodeOut
    /\ decodeIn.signal = Undefined
    /\ decodeIn.coreDumpPossible = Undefined

\* The signal numbers of the fixed POSIX table.
KnownSignals == 1..31

\* The mnemonics the table gives the signals 1 to 15.
SignalNames ==
    <<"SIGHUP", "SIGINT", "SIGQUIT", "SIGILL", "SIGTRAP", "SIGABRT", "SIGBUS",
      "SIGFPE", "SIGKILL", "SIGUSR1", "SIGSEGV", "SIGUSR2", "SIGPIPE", "SIGALRM",
      "SIGTERM">>

\* The signal numbers whose default disposition dumps core.
CoreDumpSignals == {3, 4, 6, 7, 8, 10, 11, 12, 31}

\* C4: for every code above 128 passed alone, the result has signal = code - 128
\* and exitCode = code.
C4_SignalIsCodeMinus128 ==
    \A d \in decodeOut :
        (DecodedAlone(d) /\ decodeIn.code > 128)
            => /\ Field(d, "signal") = Some(decodeIn.code - 128)
               /\ Field(d, "exitCode") = decodeIn.code

\* C5: for a code 128 + n passed alone, n a signal of the table, signalName is
\* the mnemonic of n: SIGTERM for 143, SIGSEGV for 139, SIGINT for 130.
C5_SignalNameFromTable ==
    \A d \in decodeOut :
        (DecodedAlone(d) /\ decodeIn.code - 128 \in DOMAIN SignalNames)
            => Field(d, "signalName") = Some(SignalNames[decodeIn.code - 128])

\* C6: for a code 128 + n passed alone, coreDumpPossible is true when n is one of
\* 3, 4, 6, 7, 8, 10, 11, 12, 31 and false for every other signal of the table.
C6_CoreDumpFromTable ==
    \A d \in decodeOut :
        (DecodedAlone(d) /\ decodeIn.code - 128 \in KnownSignals)
            => Field(d, "coreDumpPossible")
                  = Some(decodeIn.code - 128 \in CoreDumpSignals)

\* C7: for every code up to and including 128 passed alone, the result has
\* exitCode = code and neither signal, signalName nor coreDumpPossible set.
C7_PlainExitCode ==
    \A d \in decodeOut :
        (DecodedAlone(d) /\ decodeIn.code <= 128)
            => /\ Field(d, "exitCode") = decodeIn.code
               /\ Field(d, "signal") = Undefined
               /\ Field(d, "signalName") = Undefined
               /\ Field(d, "coreDumpPossible") = Undefined

\* The boundary code 128 was decoded alone.
C7_Witness ==
    \E d \in decodeOut : DecodedAlone(d) /\ decodeIn.code = 128

\* C8: called with an explicit signal name, the decoder returns exitCode,
\* signalName and coreDumpPossible as given and infers nothing from the code:
\* coreDumpPossible stays undefined when no hint is passed.
C8_ExplicitSignalVerbatim ==
    \A d \in decodeOut :
        decodeIn.signal # Undefined
            => /\ Field(d, "exitCode") = decodeIn.code
               /\ Field(d, "signalName") = decodeIn.signal
               /\ Field(d, "coreDumpPossible") = decodeIn.coreDumpPossible
               /\ Field(d, "signal") = Undefined

\* A code above 128 was decoded with the name of a core-dumping signal and no
\* hint.
C8_Witness ==
    /\ decodeOut # Undefined
    /\ decodeIn.signal = Some("SIGSEGV")
    /\ decodeIn.coreDumpPossible = Undefined
    /\ decodeIn.code > 128

\* C9: for a code above 128 whose signal number is outside the table, the result
\* carries the numeric signal, and signalName and coreDumpPossible are unset.
C9_UnknownSignalKeepsNumber ==
    \A d \in decodeOut :
        (DecodedAlone(d) /\ decodeIn.code > 128 /\ decodeIn.code - 128 \notin KnownSignals)
            => /\ Field(d, "signal") = Some(decodeIn.code - 128)
               /\ Field(d, "signalName") = Undefined
               /\ Field(d, "coreDumpPossible") = Undefined

\* A setActiveStream(stream) call that found no active execution.
StreamIgnored ==
    /\ lastOp'.op = "setActiveStream"
    /\ lastOp'.arg = 1
    /\ process = Undefined

C11_CompletionDetachesExecution ==
    [][lastOp'.op = "shellExecutionComplete"
          => /\ busy' = FALSE
             /\ process' = Undefined
             /\ \A pid \in process :
                   /\ completedProcesses' =
                         IF pending[pid] # <<>>
                         THEN <<pid>> \o completedProcesses
                         ELSE completedProcesses
                   /\ \E d \in lastEmit' :
                         /\ d[1] = pid
                         /\ d[2] = "shell_execution_complete"
                         /\ d[3] = [coreDumpPossible |-> Undefined,
                                    exitCode |-> lastOp'.arg,
                                    signalName |-> Undefined]
             /\ process = Undefined
                   => /\ UNCHANGED completedProcesses
                      /\ lastEmit' = Undefined]_vars

\* An execution with undrained output completed with code 143 while an earlier
\* one was still queued: it is the first of two entries.
C11_Witness ==
    /\ lastOp.op = "shellExecutionComplete"
    /\ lastOp.arg = 143
    /\ Len(completedProcesses) = 2
    /\ \E d \in lastEmit : d[1] = completedProcesses[1] /\ d[3].exitCode = 143
    /\ process = Undefined
    /\ ~busy

\* The execution that completed last (none: the empty set).
LastCompleted == IF doneOrder = <<>> THEN {} ELSE {doneOrder[Len(doneOrder)]}

\* C12: getLastCommand returns the active execution's command when one is
\* active; otherwise the command of the execution that completed last, drained
\* or not; otherwise the empty string.
C12_LastCommandOfLastCompleted ==
    [][lastOp'.op = "getLastCommand"
          => ret' = IF process # Undefined
                    THEN procs[CHOOSE pid \in process : TRUE].command
                    ELSE IF LastCompleted # {}
                         THEN procs[CHOOSE pid \in LastCompleted : TRUE].command
                         ELSE <<>>]_vars

\* C13: when the handshake of a runCommand times out, no_shell_integration is
\* emitted on its execution and the promise runCommand returned, if still
\* pending, resolves.
C13_TimeoutResolvesHandle ==
    [][lastOp'.op = "handshakeTimeout"
          => LET pid == lastOp'.arg IN
             /\ \E d \in lastEmit' : d[1] = pid /\ d[2] = "no_shell_integration"
             /\ promise[pid] = "pending" => promise'[pid] = "resolved"]_vars

\* C14: the promise runCommand returned resolves when continue is invoked on it
\* and when shell_execution_complete fires on its execution.
C14_ContinueOrCompletionResolves ==
    [][/\ lastOp'.op = "continue"
            => (promise[lastOp'.arg] = "pending" => promise'[lastOp'.arg] = "resolved")
       /\ lastOp'.op = "shellExecutionComplete"
            => \A pid \in process :
                  promise[pid] = "pending" => promise'[pid] = "resolved"]_vars

\* C15: when error fires on the active execution, the promise runCommand returned
\* rejects, busy becomes false and the active-execution reference is cleared.
C15_ErrorResetsSession ==
    [][(lastOp'.op = "emitError" /\ lastOp'.arg \in process /\ ret' = <<>>)
          => /\ promise[lastOp'.arg] = "pending" => promise'[lastOp'.arg] = "rejected"
             /\ busy' = FALSE
             /\ process' = Undefined]_vars

\* C16: at most one of completed, shell_execution_complete, no_shell_integration
\* and error is ever emitted on an execution.
C16_OneTerminatingSignal ==
    \A pid \in Pids : BagCardinality(emitted[pid]) <= 1

\* C17: continue() on an execution resolves its promise and leaves busy, running,
\* the active execution, the completed executions and every buffer unchanged;
\* a chunk added afterwards is appended to the buffer, and a later
\* Terminal.getUnretrievedOutput returns the chunks the execution holds.
C17_ContinueOnlyResolves ==
    [][/\ lastOp'.op = "continue"
            => /\ UNCHANGED <<busy, running, streamClosed, process, completedProcesses, procs>>
               /\ promise' = [promise EXCEPT ![lastOp'.arg] =
                                 IF @ = "pending" THEN "resolved" ELSE @]
       /\ lastOp'.op = "addOutput"
            => LET pid == lastOp'.arg IN
               continuedAt[pid] # {}
                  => /\ Len(procs'[pid].unretrievedOutput) = Len(procs[pid].unretrievedOutput) + 1
                     /\ SubSeq(procs'[pid].unretrievedOutput, 1, Len(procs[pid].unretrievedOutput))
                           = procs[pid].unretrievedOutput
                     /\ procs'[pid].unretrievedOutput = pending'[pid]
       /\ lastOp'.op = "Terminal.getUnretrievedOutput"
            => \A pid \in Held :
                  continuedAt[pid] # {} => Range(pending[pid]) \subseteq Range(ret')]_vars

\* The consumer called continue() before any output; the chunk produced
\* afterwards came back from the session's drain.
C17_Witness ==
    /\ lastOp.op = "Terminal.getUnretrievedOutput"
    /\ ret = <<"1">>
    /\ \E pid \in Pids : continuedAt[pid] = {0} /\ promise[pid] = "resolved"

\* C18: command text is sent only by the continuation of a handshake that found
\* shell integration: the send is the run step of an execution whose handshake
\* was ready and on which no_shell_integration was not emitted; a handshake that
\* timed out stays so, and as many texts were sent as handshakes resolved.
C18_SendOnlyAfterReadiness ==
    /\ [](BagCardinality(sentText)
            = Cardinality({pid \in Pids : handshake[pid] = "resolved"}))
    /\ [][/\ BagCardinality(sentText') # BagCardinality(sentText)
              => /\ lastOp'.op = "run"
                 /\ shellIntegration
                 /\ handshake[lastOp'.arg] = "ready"
                 /\ Count(lastOp'.arg, "no_shell_integration") = 0
                 /\ CopiesIn(procs[lastOp'.arg].command, sentText')
                      = CopiesIn(procs[lastOp'.arg].command, sentText) + 1
                 /\ BagCardinality(sentText') = BagCardinality(sentText) + 1
           /\ \A pid \in Pids :
                 handshake[pid] = "rejected" => handshake'[pid] = "rejected"]_vars

\* The command of the second execution was just sent, its handshake having
\* found shell integration, after the handshake of the first had timed out: one
\* text was sent in all.
C18_Witness ==
    /\ lastOp.op = "run"
    /\ lastOp.arg = 2
    /\ handshake = <<"rejected", "resolved">>
    /\ Count(1, "no_shell_integration") = 1
    /\ Count(2, "no_shell_integration") = 0
    /\ BagCardinality(sentText) = 1

Verbatim(line, text) ==
    \E i \in DOMAIN text :
        \/ text[i] = line
        \/ /\ Len(text[i]) = Len(line) + 2
           /\ SubSeq(text[i], 1, Len(line)) = line
           /\ text[i][Len(line) + 1] = REPEATED

\* C20: compressTerminalOutput returns at most lineLimit lines and a constant
\* few more (the marker line, and the first and the last line that stay under
\* any limit: three), and the first and the last line of a non-empty input are
\* in the result as they were.
C20_CompressedWithinLimit ==
    \A out \in compressOut :
        /\ Len(out) <= compressIn.lineLimit + 3
        /\ Len(out) <= Len(compressIn.input)
        /\ compressIn.input # EmptyText
              => /\ Verbatim(compressIn.input[1], out)
                 /\ Verbatim(compressIn.input[Len(compressIn.input)], out)

\* A text of five lines ending in a run was compressed to a limit of two lines:
\* a first line, the marker of the lines left out, and the collapsed run.
C20_Witness ==
    \E out \in compressOut :
        /\ Len(compressIn.input) = 5
        /\ compressIn.lineLimit = 2
        /\ Len(out) = 3
        /\ out[1] = compressIn.input[1]
        /\ out[2][1] = ELIDED
        /\ out[3] = compressIn.input[5] \o <<REPEATED, "2">>

\* C24: addOutput(chunk) appends the chunk to fullOutput and to unretrievedOutput,
\* in arrival order; fullOutput only grows, and a drain of unretrievedOutput
\* leaves it as it is.
C24_AddOutputAppendsToBoth ==
    [][/\ lastOp'.op = "addOutput"
            => LET pid == lastOp'.arg IN
               /\ procs'[pid].fullOutput = procs[pid].fullOutput \o NextChunk
               /\ procs'[pid].unretrievedOutput = procs[pid].unretrievedOutput \o NextChunk
       /\ \A pid \in Pids :
             /\ Len(procs'[pid].fullOutput) >= Len(procs[pid].fullOutput)
             /\ SubSeq(procs'[pid].fullOutput, 1, Len(procs[pid].fullOutput))
                   = procs[pid].fullOutput]_vars

\* C25: lastRetrievedIndex of an execution never decreases, whatever is called
\* on it (setLastRetrievedIndex included), and never exceeds the length of
\* fullOutput.
C25_IndexMonotoneAndBounded ==
    /\ [](\A pid \in Pids :
             procs[pid].lastRetrievedIndex <= Len(procs[pid].fullOutput))
    /\ [][\A pid \in Pids :
             procs'[pid].lastRetrievedIndex >= procs[pid].lastRetrievedIndex]_vars

\* The executions a shellExecutionComplete has ended.
Completed == Range(doneOrder)

\* C23: when Terminal.getUnretrievedOutput returns, no execution in
\* completedProcesses has an empty buffer: the call drops every completed
\* execution it has drained.  And a completed execution that holds chunks
\* nobody has drained is in completedProcesses.
C23_DrainPrunesDrained ==
    /\ [](\A pid \in Completed :
             pending[pid] # <<>> => pid \in Range(completedProcesses))
    /\ [][lastOp'.op = "Terminal.getUnretrievedOutput"
            => /\ \A pid \in Range(completedProcesses') :
                     hasUnretrievedOutput(procs'[pid])
               /\ \A pid \in Completed :
                     pending'[pid] = <<>> => pid \notin Range(completedProcesses')]_vars

\* Two executions have completed and two chunks were produced; the session's
\* drain returned the one chunk still pending and left no execution in
\* completedProcesses.
C23_Witness ==
    /\ lastOp.op = "Terminal.getUnretrievedOutput"
    /\ Len(doneOrder) = 2
    /\ Len(ret) = 1
    /\ produced = 2
    /\ completedProcesses = <<>>

\* C21: getProcessesWithOutput returns the completed executions that hold
\* undrained chunks, all of them and only them, in the order of
\* completedProcesses; the call leaves exactly these in completedProcesses; and
\* what the caller later does to the returned list leaves completedProcesses
\* as it is.
C21_FreshListOfPending ==
    [][/\ lastOp'.op = "getProcessesWithOutput"
            => /\ returnedList' =
                     SelectSeq(completedProcesses, LAMBDA pid : pending[pid] # <<>>)
               /\ completedProcesses' = returnedList'
               /\ UNCHANGED <<procs, process, pending>>
       /\ lastOp'.op = "mutateList"
            => UNCHANGED <<completedProcesses, procs, process>>]_vars

\* Three executions completed after a chunk each and one of them has been
\* drained; the list returned had the other two, and the caller emptied or
\* shortened its list while the session still holds both.
C21_Witness ==
    /\ lastOp.op = "mutateList"
    /\ Len(doneOrder) = 3
    /\ produced = 3
    /\ Len(completedProcesses) = 2
    /\ Len(returnedList) < 2
    /\ \A pid \in Pids : Len(pending[pid]) <= 1

\* C22: on win32 and on every other platform, the command normalizeCommand
\* returns contains no newline, whatever command it was given.
C22_ResultIsOneLine ==
    \A result \in normalizeOut : NEWLINE \notin Range(result)

\* On win32, a command of three lines was normalised.
C22_Witness ==
    /\ platform = "win32"
    /\ normalizeIn = [command |-> <<NEWLINE, "a", NEWLINE>>, pass |-> 1]
    /\ normalizeOut # Undefined

RECURSIVE Images(_, _)
\* The command in which every character is replaced by its image under f.
Images(f, command) ==
    IF command = <<>> THEN <<>>
    ELSE f[Head(command)] \o Images(f, Tail(command))

\* Off win32: a newline becomes ' && ', every other character stays.
PosixImage ==
    [ch \in CommandChars |->
       IF ch = NEWLINE THEN <<" ", "&", "&", " ">> ELSE <<ch>>]

\* On win32: a backslash before every backslash and double quote, a backtick
\* before every '$', '; ' for a newline, every other character stays.
WindowsImage ==
    [ch \in CommandChars |->
       CASE ch = BACKSLASH -> <<BACKSLASH, BACKSLASH>>
         [] ch = QUOTE -> <<BACKSLASH, QUOTE>>
         [] ch = DOLLAR -> <<BACKTICK, DOLLAR>>
         [] ch = NEWLINE -> <<";", " ">>
         [] OTHER -> <<ch>>]

\* C26: off win32 the result of normalizeCommand is the command with ' && ' for
\* each newline and nothing else changed, so a command without newlines comes
\* back as it is and normalising the result again returns it unchanged; on
\* win32 the result is the command with every backslash, double quote and '$'
\* escaped and '; ' for each newline.
C26_NormalizeByPlatform ==
    \A result \in normalizeOut :
       IF platform = "win32"
       THEN result = Images(WindowsImage, normalizeIn.command)
       ELSE /\ result = Images(PosixImage, normalizeIn.command)
            /\ NEWLINE \notin Range(normalizeIn.command) => result = normalizeIn.command
            /\ normalizeIn.pass = 2 => result = normalizeIn.command

\* On win32, a command made of a double quote, a backslash and a '$' was
\* normalised.
C26_Witness ==
    /\ platform = "win32"
    /\ normalizeIn = [command |-> <<QUOTE, BACKSLASH, DOLLAR>>, pass |-> 1]
    /\ normalizeOut = Some(<<BACKSLASH, QUOTE, BACKSLASH, BACKSLASH, BACKTICK, DOLLAR>>)

\* C27: once a caller has set the timeout with setShellIntegrationTimeout, every
\* runCommand gives its handshake the timeout set last, whether or not another
\* session was created in between.
C27_OverrideIsUsed ==
    [][lastOp'.op = "runCommand"
         => \A timeout \in lastOverride :
               handshakeTimeout'[lastOp'.arg] = timeout]_vars

\* C28: creating a session, and every operation on a session, leaves unchanged
\* what another session reads: its own fields and the timeout its next
\* handshake will use.
C28_SessionsIndependent ==
    [][lastOp'.op = "constructor"
         => UNCHANGED <<shellIntegrationTimeout, busy, running, streamClosed, process,
                        completedProcesses, procs>>]_vars

\* C29: no_shell_integration has been emitted on an execution only if its
\* handshake timed out; an execution whose handshake found shell integration
\* never gets it, not even when sending its command then fails.
C29_OnlyAfterTimeout ==
    [][\A e \in lastEmit' :
          e[2] = "no_shell_integration"
             => /\ handshake[e[1]] = "waiting"
                /\ handshake'[e[1]] = "rejected"]_vars

\* The chunks added so far: chunk n is the n-th one added.
Added == {ToString(n) : n \in 1..produced}

\* The chunks added that no drain has returned yet.
Undelivered == UNION {Range(pending[pid]) : pid \in Pids}

\* C30: when commands are run only while the session is not busy, each
\* Terminal.getUnretrievedOutput returns every chunk added since the drain
\* before it, once each, and no chunk an earlier drain returned: no chunk is
\* lost and none comes twice.
C30_EveryChunkOnce ==
    /\ []((~busy => process = Undefined) /\ Undelivered \subseteq Added)
    /\ [][lastOp'.op = "Terminal.getUnretrievedOutput"
            => /\ Range(ret') = Undelivered
               /\ Len(ret') = Cardinality(Undelivered)
               /\ \A pid \in Pids : pending'[pid] = <<>>
               /\ \A pid \in Pids : ~hasUnretrievedOutput(procs'[pid])]_vars

\* Two executions have completed, a third is active, and one drain returned
\* all four chunks added so far.
C30_Witness ==
    /\ lastOp.op = "Terminal.getUnretrievedOutput"
    /\ produced = 4
    /\ Len(ret) = 4
    /\ Len(doneOrder) = 2
    /\ process # Undefined

\* C31: whenever the text of a command is sent, the execution it belongs to is
\* the active execution of the session and busy is true; the continuation of a
\* handshake whose execution was completed or replaced meanwhile sends nothing.
C31_SendsOnlyForActiveExecution ==
    [][BagCardinality(sentText') # BagCardinality(sentText)
         => /\ process = {lastOp'.arg}
            /\ busy]_vars

\* C32: running becomes true only in the step that sends a command, and when
\* a shellExecutionComplete has left the session idle (busy false, no active
\* execution) running is false.
C32_RunningTracksCommand ==
    [][/\ (running' /\ ~running) => lastOp'.op = "run"
       /\ (lastOp'.op = "shellExecutionComplete" /\ ~busy' /\ process' = Undefined)
            => ~running']_vars

\* C33: when two getTerminalContents calls that ran interleaved at their awaits
\* have both returned, the clipboard holds what it held before the first of
\* them was made.
C33_ClipboardRestoredAfterBoth ==
    (call.pc = "returned" /\ otherCall.pc = "returned") => clipboard = original

\* C34: at most one createCheckpoint call is between the start and the end of
\* its executeCheckpoint at any time, whatever calls throw before or during
\* execution, and isCheckpointInProgress is false whenever none is.
C34_OneCheckpointAtATime ==
    /\ Cardinality(Executing) <= 1
    /\ Executing = {} => ~isCheckpointInProgress

\* No createCheckpoint call is in flight.
NoCheckpointCallInFlight ==
    \A c \in DOMAIN checkpointCalls : checkpointCalls[c].pc = "returned"

\* C35: a createCheckpoint call that finds a checkpoint in progress puts its
\* task id in the pending set and returns undefined without executing, and
\* every task id put there is executed once the checkpoint in progress has
\* ended, in success or in failure: when no call is left in flight the pending
\* set is empty.
C35_QueuedIsExecuted ==
    /\ \A c \in DOMAIN checkpointCalls :
          checkpointCalls[c].pc = "returned" /\ checkpointCalls[c].result = "undefined"
             => \A e \in Range(executions) :
                   e[1] = c => checkpointCalls[c].threw # ""
    /\ NoCheckpointCallInFlight => pendingCheckpoints = <<>>

\* The executions made for requests taken from the pending set.
QueuedExecutions ==
    {i \in DOMAIN executions : checkpointCalls[executions[i][1]].fromQueue}

\* C36: an execution made for a task id taken from the pending set runs on the
\* workspace root a queued request for that task id was made with, and there
\* are no more such executions than queued requests.
C36_QueuedRunsOnItsOwnRoot ==
    /\ \A i \in QueuedExecutions :
          \E q \in Range(queuedRequests) :
             q[1] = executions[i][2] /\ q[2] = executions[i][3]
    /\ Cardinality(QueuedExecutions) <= Len(queuedRequests)

\* The codes the first n renames of the call failed with are all EACCES.
AllEACCES(n) == \A i \in 1..n : rename.errors[i] = "EACCES"

\* C37: a safeRename call makes at most 3 renames and always ends.  It returns
\* exactly when a rename succeeds, with no rename after it; it waits for a
\* retry only after attempt 1 or 2 failed with EACCES; and it throws exactly
\* when a rename fails with another code or the third rename fails.
C37_AtMostThreeAttempts ==
    /\ [](/\ rename.renames <= maxRetries
          /\ rename.pc = "returned"
                => /\ Len(rename.errors) = rename.renames - 1
                   /\ AllEACCES(Len(rename.errors))
          /\ rename.pc = "delay"
                => /\ Len(rename.errors) = rename.renames
                   /\ rename.renames < maxRetries
                   /\ AllEACCES(Len(rename.errors))
          /\ rename.pc = "thrown"
                => /\ Len(rename.errors) = rename.renames
                   /\ AllEACCES(Len(rename.errors) - 1)
                   /\ \/ rename.errors[Len(rename.errors)] # "EACCES"
                      \/ rename.renames = maxRetries)
    /\ (rename.pc \in {"rename", "delay"}) ~> RenameOver

\* The third rename of a call failed with EACCES like the two before it, and
\* the call threw.
C37_Witness ==
    /\ rename.pc = "thrown"
    /\ rename.errors = <<"EACCES", "EACCES", "EACCES">>
    /\ rename.renames = 3

\* C38: every result recorded for a search URL holds the page content of that
\* same URL.
C38_ResultHoldsItsOwnPage ==
    \A i \in DOMAIN results : results[i][2] = results[i][1]

====
